---- MODULE Spec2Model ----
(***************************************************************************)
(* Alecto: the chat session of ChatManager (processUserInput and           *)
(* handleToolCalls) over the tool catalog and dispatch table of            *)
(* ToolManager.  Texts are sequences of tokens, so that "includes" is a    *)
(* real substring test; parameter names are sequences of characters.       *)
(***************************************************************************)
EXTENDS Integers, Sequences, FiniteSets, TLC

VARIABLES
    pc,          \* where the session is: "init", "awaiting", "model", "exec",
                 \* "recover", "final", "exited"
    messages,    \* ChatManager.messages, the transcript
    clients,     \* ToolManager.clients: the open provider connections
    toolMap,     \* ToolManager.toolMap: tool name -> provider
    tools,       \* ToolManager.tools: the catalog handed to the model
    toolCalls,   \* handleToolCalls: the batch being handled
    idx,         \* handleToolCalls: position of the for loop in the batch
    result,      \* handleToolCalls: what callTool returned for the last call
    stack,       \* the enclosing handleToolCalls frames, innermost last
    surfaced,    \* the error start() caught for the last turn, or "none"
    thrown,      \* the error the last model request threw, or "none"
    turnStart,   \* the transcript when the current turn began
    modelCalls,  \* model requests issued in the current turn
    tried,       \* tool names of every batch handled in the current turn
    outcomes,    \* per executed call of the batch: "hard", "soft" or "ok"
    ended,       \* how the last turn ended
    config,      \* what each configured provider answers listTools with
    newClients,  \* createMcpClients: the connections opened so far
    startup,     \* how ChatManager.initialize ended
    input,       \* start: what the input surface delivered last
    asked,       \* the last suggestParameterMapping call: tool name and arguments
    suggested,   \* what that call returned
    timed,       \* ToolManager.executeToolCall: the call in progress
    fixedArgs    \* handleToolCalls: the arguments handed to callTool last

\* The state outside the chat turn.
toolVars == <<config, newClients, startup, asked, suggested, timed>>

vars == <<pc, messages, clients, toolMap, tools, toolCalls, idx, result, stack,
          surfaced, thrown, turnStart, modelCalls, tried, outcomes, ended,
          config, newClients, startup, input, asked, suggested, timed, fixedArgs>>

\* Longest transcript explored.
MaxMsgs == 8

----------------------------------------------------------------------------
\* Sequences of tokens.

Last(s) == s[Len(s)]

\* String.prototype.includes / Array.prototype.includes on token sequences.
Includes(hay, needle) ==
    \E i \in 0..(Len(hay) - Len(needle)) :
        SubSeq(hay, i + 1, i + Len(needle)) = needle

\* Array.prototype.join: the texts of `parts` with `sep` between them.
RECURSIVE Join(_, _)
Join(parts, sep) ==
    IF Len(parts) = 0 THEN <<>>
    ELSE IF Len(parts) = 1 THEN parts[1]
    ELSE parts[1] \o sep \o Join(Tail(parts), sep)

----------------------------------------------------------------------------
\* Parameter names, as sequences of characters.

query == <<"q", "u", "e", "r", "y">>
limit == <<"l", "i", "m", "i", "t">>
que   == <<"q", "u", "e">>
path  == <<"p", "a", "t", "h">>
value == <<"v", "a", "l", "u", "e">>

\* The tools the providers declare (McpTool).
McpToolA      == [name |-> "a", properties |-> <<query, limit>>, required |-> <<query>>]
McpToolNoName == [name |-> "", properties |-> <<path>>, required |-> <<>>]
McpToolA2     == [name |-> "a", properties |-> <<path>>, required |-> <<path>>]
McpToolSearch == [name |-> "search", properties |-> <<query>>, required |-> <<query>>]
McpToolB      == [name |-> "b", properties |-> <<path, limit>>, required |-> <<>>]

\* An element of a tool list: what typeof says of it, whether it is null, and
\* the tool it describes when it is an object.
ToolItem(tool) == [typeof |-> "object", isNull |-> FALSE, tool |-> tool]
NullItem       == [typeof |-> "object", isNull |-> TRUE,  tool |-> McpToolNoName]
NumberItem     == [typeof |-> "number", isNull |-> FALSE, tool |-> McpToolNoName]

\* What client.listTools answers: it throws, or returns a `tools` value that
\* is an array of items or something else.
ToolList(items) == [throws |-> FALSE, isArray |-> TRUE,  items |-> items]
NotAnArray      == [throws |-> FALSE, isArray |-> FALSE, items |-> <<>>]
ListThrows      == [throws |-> TRUE,  isArray |-> FALSE, items |-> <<>>]

\* ToolManager.fetchTools: null (ok FALSE) when listTools throws, the value
\* is no array or some element is not typeof "object"; the items otherwise.
fetchTools(reply) ==
    IF reply.throws THEN [ok |-> FALSE, items |-> <<>>]
    ELSE IF \/ ~reply.isArray
            \/ ~(\A i \in 1..Len(reply.items) : reply.items[i].typeof = "object")
         THEN [ok |-> FALSE, items |-> <<>>]
    ELSE [ok |-> TRUE, items |-> reply.items]

\* initialize reads tool.name of every fetched item: a null item throws.
throwsOnName(k) ==
    LET mcpTools == fetchTools(config[k])
    IN  mcpTools.ok /\ \E i \in 1..Len(mcpTools.items) : mcpTools.items[i].isNull

\* The tools each provider contributes to initialize: those of its fetched
\* list, none when fetchTools returned null.
Providers ==
    [k \in 1..Len(config) |->
        LET mcpTools == fetchTools(config[k])
        IN  [i \in 1..Len(mcpTools.items) |-> mcpTools.items[i].tool]]

\* The configuration of the chat session: one provider offering the tool "a"
\* and a tool without a name.
PrimaryConfig == << ToolList(<<ToolItem(McpToolA), ToolItem(McpToolNoName)>>) >>

\* The configurations of the tool manager.
Configs ==
    { PrimaryConfig,
      << NotAnArray, ToolList(<<ToolItem(McpToolSearch), ToolItem(McpToolB)>>) >>,
      << ListThrows, ToolList(<<ToolItem(McpToolSearch), ToolItem(McpToolB)>>) >>,
      << ToolList(<<NumberItem>>), ToolList(<<ToolItem(McpToolSearch), ToolItem(McpToolB)>>) >>,
      << ToolList(<<NullItem>>), ToolList(<<ToolItem(McpToolSearch), ToolItem(McpToolB)>>) >>,
      << ToolList(<<ToolItem(McpToolA)>>), ToolList(<<ToolItem(McpToolA2)>>) >>,
      << >> }

\* convertToOpenaiTools: tools without a name are dropped, the others keep
\* their name, their properties and their required list.
RECURSIVE convertToOpenaiTools(_)
convertToOpenaiTools(mcpTools) ==
    IF Len(mcpTools) = 0 THEN <<>>
    ELSE (IF mcpTools[1].name = "" THEN <<>>
          ELSE << [name       |-> mcpTools[1].name,
                   properties |-> mcpTools[1].properties,
                   required   |-> mcpTools[1].required] >>)
         \o convertToOpenaiTools(Tail(mcpTools))

\* initialize: allMcpTools after the first k providers were fetched.
RECURSIVE allMcpTools(_)
allMcpTools(k) ==
    IF k = 0 THEN <<>> ELSE allMcpTools(k - 1) \o Providers[k]

\* initialize: toolMap.set(tool.name, client) for every tool of every provider
\* in order, so a name ends at the last provider that offers it.
OffersTool(p, n) == \E i \in 1..Len(Providers[p]) : Providers[p][i].name = n
toolMapOf(k) ==
    LET names == {allMcpTools(k)[i].name : i \in 1..Len(allMcpTools(k))}
    IN  [n \in names |->
            CHOOSE p \in 1..k :
                /\ OffersTool(p, n)
                /\ \A q \in 1..k : OffersTool(q, n) => q <= p]

\* getToolParameterInfo: this.tools.find, the position of the first catalog
\* entry with the name, 0 for undefined.
getToolParameterInfo(toolName) ==
    IF \E i \in 1..Len(tools) : tools[i].name = toolName
    THEN CHOOSE i \in 1..Len(tools) :
            /\ tools[i].name = toolName
            /\ \A j \in 1..(i - 1) : tools[j].name # toolName
    ELSE 0

----------------------------------------------------------------------------
\* Parameter Reconciler (ToolManager.suggestParameterMapping).

\* String.prototype.toLowerCase, on the characters the names use.
toLowerCase(c) ==
    CASE c = "Q" -> "q"
      [] c = "U" -> "u"
      [] c = "E" -> "e"
      [] c = "X" -> "x"
      [] c = "R" -> "r"
      [] c = "Y" -> "y"
      [] c = "I" -> "i"
      [] c = "T" -> "t"
      [] OTHER   -> c

\* provided.toLowerCase().replace(/[_-]/g, "")
RECURSIVE normalize(_)
normalize(name) ==
    IF Len(name) = 0 THEN <<>>
    ELSE (IF name[1] \in {"_", "-"} THEN <<>> ELSE <<toLowerCase(name[1])>>)
         \o normalize(Tail(name))

\* findMostSimilarParameter with the test in one direction only: the first
\* expected parameter whose normalized name the provided name contains.
RECURSIVE findContainedParameter(_, _)
findContainedParameter(provided, expected) ==
    IF Len(expected) = 0 THEN <<>>
    ELSE IF Includes(normalize(provided), normalize(expected[1]))
         THEN expected[1]
         ELSE findContainedParameter(provided, Tail(expected))

\* findMostSimilarParameter: the first expected parameter whose normalized
\* name contains the normalized provided name or is contained in it; <<>> is
\* null.
RECURSIVE findMostSimilarParameter(_, _)
findMostSimilarParameter(provided, expected) ==
    IF Len(expected) = 0 THEN <<>>
    ELSE IF \/ Includes(normalize(expected[1]), normalize(provided))
            \/ Includes(normalize(provided), normalize(expected[1]))
         THEN expected[1]
         ELSE findMostSimilarParameter(provided, Tail(expected))

\* The loop of suggestParameterMapping over Object.keys(providedArgs).
RECURSIVE mappingFor(_, _)
mappingFor(providedArgs, expectedParams) ==
    IF Len(providedArgs) = 0 THEN <<>>
    ELSE LET providedParam == providedArgs[1].k
             mostSimilar   == findMostSimilarParameter(providedParam, expectedParams)
         IN  (IF \/ \E i \in 1..Len(expectedParams) : expectedParams[i] = providedParam
                 \/ mostSimilar = <<>>
              THEN <<>>
              ELSE << [from |-> providedParam, to |-> mostSimilar] >>)
             \o mappingFor(Tail(providedArgs), expectedParams)

\* suggestParameterMapping: the mapping as its entries in insertion order.
suggestParameterMapping(toolName, providedArgs) ==
    LET tool == getToolParameterInfo(toolName)
    IN  IF tool = 0 THEN <<>>
        ELSE mappingFor(providedArgs, tools[tool].properties)

----------------------------------------------------------------------------
\* Tool calls and their arguments.  Arguments are either an object, its
\* entries in insertion order (pairs), or a string (raw) that JSON.parse
\* accepts (json, giving pairs) or rejects.

ObjArgs(pairs) == [str |-> FALSE, json |-> FALSE, raw |-> <<>>, pairs |-> pairs]

\* String arguments: the text and, when JSON.parse accepts it, its entries.
StrArgs(raw, json, pairs) == [str |-> TRUE, json |-> json, raw |-> raw, pairs |-> pairs]

\* The text JSON.parse turns into null, which has no entries.
NullText == <<"null">>

\* parseToolArguments returns null: Object.keys and Object.entries throw a
\* TypeError on it.
parsesToNull(args) == args.str /\ args.json /\ args.raw = NullText

\* ChatManager.parseToolArguments; for a text that parses to null see
\* parsesToNull.
parseToolArguments(args) ==
    IF args.str
    THEN IF args.json THEN args.pairs ELSE << [k |-> value, v |-> args.raw] >>
    ELSE args.pairs

\* mappings[key] || key
mappedKey(mappings, key) ==
    IF \E i \in 1..Len(mappings) : mappings[i].from = key /\ mappings[i].to # <<>>
    THEN LET i == CHOOSE i \in 1..Len(mappings) : mappings[i].from = key
         IN  mappings[i].to
    ELSE key

\* fixedArgs[key] = value: the value of an entry the object has, a new last
\* entry otherwise.
setEntry(obj, key, val) ==
    IF \E i \in 1..Len(obj) : obj[i].k = key
    THEN [i \in 1..Len(obj) |-> IF obj[i].k = key THEN [k |-> key, v |-> val] ELSE obj[i]]
    ELSE Append(obj, [k |-> key, v |-> val])

\* The loop of fixToolArguments over Object.entries(args).
RECURSIVE fixInto(_, _, _)
fixInto(fixed, args, mappings) ==
    IF Len(args) = 0 THEN fixed
    ELSE fixInto(setEntry(fixed, mappedKey(mappings, args[1].k), args[1].v),
                 Tail(args), mappings)

\* ChatManager.fixToolArguments
fixToolArguments(args, mappings) == fixInto(<<>>, args, mappings)

\* JSON.stringify of the entries of an object.
RECURSIVE entryTexts(_)
entryTexts(pairs) ==
    IF Len(pairs) = 0 THEN <<>>
    ELSE << <<"\"">> \o pairs[1].k \o <<"\"", ":", "\"">> \o pairs[1].v \o <<"\"">> >>
         \o entryTexts(Tail(pairs))

\* JSON.stringify(call.function.arguments)
stringify(args) ==
    IF args.str THEN <<"\"">> \o args.raw \o <<"\"">>
    ELSE <<"{">> \o Join(entryTexts(args.pairs), <<",">>) \o <<"}">>

----------------------------------------------------------------------------
\* Tool results.  A result's content is a sequence of blocks.

TextBlock(text) == [type |-> "text", text |-> text]
ImageBlock      == [type |-> "image", text |-> <<>>]

\* formatToolResponse: the text blocks, each its text or "No content", joined
\* by newlines.
RECURSIVE textsOf(_)
textsOf(responseContent) ==
    IF Len(responseContent) = 0 THEN <<>>
    ELSE (IF responseContent[1].type = "text"
          THEN << IF responseContent[1].text = <<>> THEN <<"No content">>
                  ELSE responseContent[1].text >>
          ELSE <<>>)
         \o textsOf(Tail(responseContent))

\* formatToolResponse that keeps the first text block only.
formatFirstText(responseContent) ==
    IF Len(textsOf(responseContent)) = 0 THEN <<>> ELSE textsOf(responseContent)[1]

formatToolResponse(responseContent) == Join(textsOf(responseContent), <<"\n">>)

\* handleToolCalls: the test that sends a result to the recovery branch.
isSoftFailure(resultContent) ==
    /\ Len(resultContent) > 0
    /\ resultContent[1].type = "text"
    /\ Includes(resultContent[1].text, <<"Error">>)

\* The entries of the "Suggested parameter mappings" list.
RECURSIVE mappingLines(_)
mappingLines(suggestedMappings) ==
    IF Len(suggestedMappings) = 0 THEN <<>>
    ELSE <<"- ">> \o suggestedMappings[1].from \o <<" -> ">>
         \o suggestedMappings[1].to \o <<"\n">>
         \o mappingLines(Tail(suggestedMappings))

\* createDetailedErrorMessage; toolInfo is a position in the catalog, 0 for
\* undefined.
createDetailedErrorMessage(toolName, errorText, toolInfo, suggestedMappings) ==
    <<"Error using tool ", toolName, ":\n">> \o errorText \o <<"\n\n">>
    \o (IF toolInfo # 0
        THEN <<"Expected parameters", ":\n", "Required: ">>
             \o Join(tools[toolInfo].required, <<", ">>) \o <<"\n", "Available: ">>
             \o Join(tools[toolInfo].properties, <<", ">>) \o <<"\n\n">>
             \o (IF Len(suggestedMappings) > 0
                 THEN <<"Suggested parameter mappings", ":\n">>
                      \o mappingLines(suggestedMappings)
                 ELSE <<>>)
        ELSE <<>>)

\* What callTool returns: undefined, or the provider's result.
Undefined == [defined |-> FALSE, content |-> <<>>]

\* callTool with a catch that returns the failure as a result instead of
\* undefined.
callToolReportingFailure(toolName, reply) ==
    IF toolName \notin DOMAIN toolMap THEN Undefined
    ELSE IF reply.throws
         THEN [defined |-> TRUE,
               content |-> <<TextBlock(<<"Error", " calling tool">>)>>]
    ELSE [defined |-> TRUE, content |-> reply.content]

\* ToolManager.callTool: undefined when the name is not in the dispatch table
\* or the provider call throws, the provider's result otherwise.
callTool(toolName, reply) ==
    IF toolName \notin DOMAIN toolMap THEN Undefined
    ELSE IF reply.throws THEN Undefined
    ELSE [defined |-> TRUE, content |-> reply.content]

----------------------------------------------------------------------------
\* The decisions of processUserInput and handleToolCalls.

Message(role, content, tool_calls, tool_call_id) ==
    [role |-> role, content |-> content, tool_calls |-> tool_calls,
     tool_call_id |-> tool_call_id]

NoId == "-"

\* A tool message that carries no correlation id.
toolMessageWithoutId(content, toolCall) == Message("tool", content, <<>>, NoId)

\* handleToolCalls: the message that records the result of a tool call, with
\* the name of the call as its tool_call_id.
toolMessage(content, toolCall) == Message("tool", content, <<>>, toolCall.name)

\* hasToolCalls with the length compared against 1.
hasSeveralToolCalls(message) == Len(message.tool_calls) > 1

\* (response.message.tool_calls ?? []).length > 0
hasToolCalls(message) == Len(message.tool_calls) > 0

\* hasNewToolCalls comparing the tool names only.
hasNewToolNames(newToolCalls, toolCall) ==
    \E i \in 1..Len(newToolCalls) : newToolCalls[i].name # toolCall.name

\* Recovery branch: some new call differs from the failed call in name or in
\* serialized arguments.
hasNewToolCalls(newToolCalls, toolCall) ==
    \E i \in 1..Len(newToolCalls) :
        \/ newToolCalls[i].name # toolCall.name
        \/ stringify(newToolCalls[i].arguments) # stringify(toolCall.arguments)

\* Final answer: some new call's name is not a name of the batch just handled.
hasNewTools(newToolCalls, batch) ==
    LET previousToolNames == {batch[i].name : i \in 1..Len(batch)}
    IN  \E i \in 1..Len(newToolCalls) : newToolCalls[i].name \notin previousToolNames

\* pop that removes nothing.
popNothing(msgs) == msgs

\* this.messages.pop()
pop(msgs) == SubSeq(msgs, 1, Len(msgs) - 1)

\* catchRecovery that logs every error and returns.
catchRecoveryAbsorbingAll(err) == "none"

\* The catch around the recovery request, throwing every error on.
catchRecoveryRethrowingAll(err) == err

\* The catch of the recovery branch: what it throws on, "none" when it logs
\* the error and returns.
catchRecovery(err) == IF err = "refused" THEN err ELSE "none"

\* The catch around the final-answer request, throwing every error on.
catchFinalRethrowingAll(err) == err

\* The catch around the final-answer request.
catchFinal(err) == IF err = "refused" THEN err ELSE "none"

\* An error thrown by an inner handleToolCalls passes the catch of every
\* enclosing frame, innermost (last) first.
RECURSIVE propagate(_, _)
propagate(err, frames) ==
    IF err = "none" \/ Len(frames) = 0 THEN err
    ELSE propagate(IF Last(frames) = "recover" THEN catchRecovery(err)
                   ELSE catchFinal(err),
                   SubSeq(frames, 1, Len(frames) - 1))

----------------------------------------------------------------------------
\* What the user, the model and the providers may answer.

\* What the input surface delivers: a text, as its characters, or the cancel
\* symbol.
Cancel    == <<"<cancel>">>
exit      == <<"e", "x", "i", "t">>
ExitMixed == <<"E", "x", "i", "T">>
exits     == <<"e", "x", "i", "t", "s">>

\* The texts that start a turn.
UserTexts == { exits }

Inputs    == UserTexts \cup {exit, ExitMixed, Cancel}

\* ChatInterface.getUserInput: a cancelled prompt reads as "exit".
getUserInput(raw) == IF raw = Cancel THEN exit ELSE raw

\* userInput.toLowerCase()
lowerCased(text) == [i \in 1..Len(text) |-> toLowerCase(text[i])]

\* The loop test of start with a substring test in place of the comparison.
containsExit(userInput) == Includes(lowerCased(userInput), exit)

\* start: userInput?.toLowerCase() === "exit"
isExit(userInput) == lowerCased(userInput) = exit

CallA      == [name |-> "a",  arguments |-> ObjArgs(<< [k |-> query, v |-> <<"cats">>] >>)]
CallAque   == [name |-> "a",  arguments |-> ObjArgs(<< [k |-> que, v |-> <<"cats">>] >>)]
CallZ      == [name |-> "zz", arguments |-> ObjArgs(<< [k |-> query, v |-> <<"cats">>] >>)]
CallNoName == [name |-> "",   arguments |-> ObjArgs(<< [k |-> query, v |-> <<"cats">>] >>)]
CallANull  == [name |-> "a",  arguments |-> StrArgs(NullText, TRUE, <<>>)]

\* The tool_calls of a model response; <<>> is a plain answer.
Batches ==
    { <<>>, <<CallA>>, <<CallAque>>, <<CallZ>>, <<CallNoName>>,
      <<CallZ, CallA>>, <<CallA, CallA>>, <<CallA, CallAque>>, <<CallANull>>,
      <<CallA, CallANull>> }

Responses == { Message("assistant", <<"answer">>, b, NoId) : b \in Batches }

\* The errors ollama.chat throws: connection refused, or anything else.
ChatErrors == {"refused", "other"}

OkText  == <<"3 files found">>
ErrText == <<"Error", ": file not found">>

\* What a provider answers callTool with: it throws, or returns content.
ProviderReplies ==
    { [throws |-> TRUE,  content |-> <<>>],
      [throws |-> FALSE, content |-> <<TextBlock(OkText)>>],
      [throws |-> FALSE, content |-> <<TextBlock(ErrText)>>],
      [throws |-> FALSE, content |-> <<TextBlock(OkText), TextBlock(ErrText)>>] }

\* A response is explored when the transcript has room for the messages the
\* turn can still append after it: the response, one tool message per call and
\* one more response.
Room(message) ==
    Len(messages) + 1
    + (IF hasToolCalls(message) THEN Len(message.tool_calls) + 1 ELSE 0) <= MaxMsgs

----------------------------------------------------------------------------
\* The calls of the tool manager outside a chat turn: suggestParameterMapping
\* and executeToolCall.

qry       == <<"q", "r", "y">>
QU_E      == <<"Q", "U", "-", "E">>
my_query  == <<"m", "y", "_", "q", "u", "e", "r", "y">>
pathlimit == <<"p", "a", "t", "h", "l", "i", "m", "i", "t">>
zz        == <<"z", "z">>

\* An argument object with the given keys, in insertion order.
ArgsOf(keys) == [i \in 1..Len(keys) |-> [k |-> keys[i], v |-> <<"cats">>]]

\* An argument object with the given keys, each with a value of its own.
ValuedArgs(keys) == [i \in 1..Len(keys) |-> [k |-> keys[i], v |-> <<"value of ">> \o keys[i]]]

\* The tool names and argument objects suggestParameterMapping is asked about.
SuggestNames == {"a", "b", "search", "zz", ""}
SuggestArgs ==
    { ArgsOf(<<qry>>), ArgsOf(<<query>>), ArgsOf(<<que>>), ArgsOf(<<QU_E, limit>>),
      ArgsOf(<<my_query, zz>>), ArgsOf(<<pathlimit>>), ArgsOf(<<zz, path>>),
      ArgsOf(<<>>), ValuedArgs(<<que, query>>), ValuedArgs(<<query, que>>),
      ValuedArgs(<<que, QU_E>>), ValuedArgs(<<zz, que, limit>>) }

\* No suggestParameterMapping call was made yet.
NotAsked == [toolName |-> "-", providedArgs |-> <<>>]

JsonText == <<"{\"query\":\"cats\"}">>
BadText  == <<"cats">>

CallSearch    == [name |-> "search", arguments |-> ObjArgs(ArgsOf(<<query>>))]
CallAJson     == [name |-> "a", arguments |-> StrArgs(JsonText, TRUE, ArgsOf(<<query>>))]
CallABad      == [name |-> "a", arguments |-> StrArgs(BadText, FALSE, <<>>)]
CallSearchBad == [name |-> "search", arguments |-> StrArgs(BadText, FALSE, <<>>)]

\* The tool calls executeToolCall is given.
ExecCalls == {CallA, CallZ, CallNoName, CallSearch, CallAJson, CallABad, CallSearchBad}

\* How a call of executeToolCall ends: not yet, with a string, or by throwing.
NoOutcome     == [kind |-> "none",  text |-> <<>>]
Value(text)   == [kind |-> "value", text |-> text]
Failure(text) == [kind |-> "error", text |-> text]

InvalidFormat   == <<"Invalid tool call format provided.">>
SyntaxError     == <<"SyntaxError">>
NotFound(name)  == <<"Tool '", name, "' not found">>
TimedOut        == <<"Tool call timed out after 30000ms">>
ProviderError   == <<"provider error">>
CallFailed(msg) == <<"Tool call failed: ">> \o msg

\* ToolManager.parseToolCall: throws on a call without a name and rethrows
\* the error of JSON.parse on string arguments.
parseToolCall(toolCall) ==
    IF toolCall.name = ""
    THEN [throws |-> TRUE, error |-> InvalidFormat, name |-> "", args |-> ObjArgs(<<>>)]
    ELSE IF toolCall.arguments.str
         THEN IF toolCall.arguments.json
              THEN [throws |-> FALSE, error |-> <<>>, name |-> toolCall.name,
                    args |-> ObjArgs(toolCall.arguments.pairs)]
              ELSE [throws |-> TRUE, error |-> SyntaxError, name |-> toolCall.name,
                    args |-> ObjArgs(<<>>)]
    ELSE [throws |-> FALSE, error |-> <<>>, name |-> toolCall.name,
          args |-> toolCall.arguments]

\* callToolWithTimeout: the arguments handed to client.callTool.
parsedArgs(args) ==
    IF args.str
    THEN IF args.json THEN args.pairs ELSE << [k |-> value, v |-> args.raw] >>
    ELSE args.pairs

NoCall  == [name |-> "", arguments |-> ObjArgs(<<>>)]
NoReply == [throws |-> FALSE, content |-> <<>>]

\* No executeToolCall is in progress.
Idle ==
    [phase |-> "idle", call |-> NoCall, args |-> <<>>, timer |-> "none",
     provider |-> "none", reply |-> NoReply, first |-> "none", outcome |-> NoOutcome]

\* executeToolCall up to the await of the race.
startCall(toolCall) ==
    LET parsed == parseToolCall(toolCall)
        failed(msg) == [Idle EXCEPT !.phase = "done", !.call = toolCall,
                                    !.outcome = Failure(msg)]
    IN  IF parsed.throws THEN failed(parsed.error)
        ELSE IF parsed.name \notin DOMAIN toolMap THEN failed(NotFound(parsed.name))
        ELSE [Idle EXCEPT !.phase = "racing", !.call = toolCall,
                          !.args = parsedArgs(parsed.args),
                          !.timer = "pending", !.provider = "pending"]

\* A race in which the timer does not decide.
settleIgnoringTimer(t, who, reply) ==
    IF who = "timer" THEN [t EXCEPT !.timer = "fired"]
    ELSE LET t1 == [t EXCEPT !.provider = IF reply.throws THEN "rejected" ELSE "resolved",
                             !.reply = reply]
         IN  IF t.phase = "racing"
             THEN [t1 EXCEPT !.phase = "done", !.first = who,
                      !.outcome = IF reply.throws THEN Failure(CallFailed(ProviderError))
                                  ELSE Value(formatToolResponse(reply.content))]
             ELSE t1

\* Promise.race of callToolWithTimeout, its catch and the formatting of
\* executeToolCall: the first of the provider call and the timer to settle
\* decides the outcome, the other settles unobserved.
settle(t, who, reply) ==
    LET t1 == IF who = "timer" THEN [t EXCEPT !.timer = "fired"]
              ELSE [t EXCEPT !.provider = IF reply.throws THEN "rejected" ELSE "resolved",
                             !.reply = reply]
    IN  IF t.phase = "racing"
        THEN [t1 EXCEPT !.phase = "done", !.first = who,
                 !.outcome = IF who = "timer" THEN Failure(CallFailed(TimedOut))
                             ELSE IF reply.throws THEN Failure(CallFailed(ProviderError))
                             ELSE Value(formatToolResponse(reply.content))]
        ELSE t1

----------------------------------------------------------------------------
\* The session.

SystemMessage == Message("system", <<"You are a helpful AI assistant.">>, <<>>, NoId)

\* The state after construction, the configuration apart.
InitSession ==
    /\ pc = "init"
    /\ messages = <<SystemMessage>>
    /\ clients = {}
    /\ toolMap = [n \in {} |-> 0]
    /\ tools = <<>>
    /\ toolCalls = <<>>
    /\ idx = 0
    /\ result = Undefined
    /\ stack = <<>>
    /\ surfaced = "none"
    /\ thrown = "none"
    /\ turnStart = <<SystemMessage>>
    /\ modelCalls = 0
    /\ tried = {}
    /\ outcomes = <<>>
    /\ ended = "none"
    /\ newClients = {}
    /\ startup = "none"
    /\ input = <<>>
    /\ asked = NotAsked
    /\ suggested = <<>>
    /\ timed = Idle
    /\ fixedArgs = <<>>

Init ==
    /\ InitSession
    /\ config = PrimaryConfig

\* The variables of the chat turn.
turnVars == <<messages, toolCalls, idx, result, stack, surfaced, thrown,
              turnStart, modelCalls, tried, outcomes, ended>>

\* createMcpClients: one pass of the loop, client.connect succeeds for the
\* next configured provider.
Connect ==
    /\ pc = "init"
    /\ Cardinality(newClients) < Len(config)
    /\ newClients' = newClients \cup {Cardinality(newClients) + 1}
    /\ UNCHANGED <<pc, clients, toolMap, tools, turnVars, config, startup, input,
                   asked, suggested, timed,
                   fixedArgs>>

\* createMcpClients: client.connect throws; the error leaves initialize and
\* main reports it.  The connections opened before stay in the local map.
ConnectFails ==
    /\ pc = "init"
    /\ Cardinality(newClients) < Len(config)
    /\ startup' = "connectFailed"
    /\ pc' = "exited"
    /\ UNCHANGED <<clients, toolMap, tools, turnVars, config, newClients, input,
                   asked, suggested, timed,
                   fixedArgs>>

\* ToolManager.initialize after createMcpClients, then testOllamaConnection
\* succeeds and main calls start.
Initialize ==
    /\ pc = "init"
    /\ Cardinality(newClients) = Len(config)
    /\ Len(config) > 0
    /\ \A k \in 1..Len(config) : ~throwsOnName(k)
    /\ clients' = newClients
    /\ newClients' = {}
    /\ toolMap' = toolMapOf(Len(Providers))
    /\ tools' = convertToOpenaiTools(allMcpTools(Len(Providers)))
    /\ startup' = "ok"
    /\ pc' = "awaiting"
    /\ UNCHANGED <<turnVars, config, input, asked, suggested, timed,
                   fixedArgs>>

\* ChatManager.initialize throws: no client was loaded, tool.name of a null
\* item throws while the catalog is built, or testOllamaConnection fails.
\* main reports the error and never calls start, so cleanup does not run.
InitializeFails ==
    /\ pc = "init"
    /\ Cardinality(newClients) = Len(config)
    /\ IF Len(config) = 0
       THEN /\ startup' = "noClients"
            /\ UNCHANGED <<clients, newClients, toolMap, tools>>
       ELSE /\ clients' = newClients
            /\ newClients' = {}
            /\ IF \E k \in 1..Len(config) : throwsOnName(k)
               THEN \* the names registered before the throw: those of the
                    \* providers before it and of its items before the null one
                    LET bad    == CHOOSE k \in 1..Len(config) :
                                    /\ throwsOnName(k)
                                    /\ \A j \in 1..(k - 1) : ~throwsOnName(j)
                        items  == config[bad].items
                        null   == CHOOSE i \in 1..Len(items) :
                                    /\ items[i].isNull
                                    /\ \A j \in 1..(i - 1) : ~items[j].isNull
                        before == {items[i].tool.name : i \in 1..(null - 1)}
                    IN  /\ startup' = "typeError"
                        /\ toolMap' = [n \in DOMAIN toolMapOf(bad - 1) \cup before |->
                                          IF n \in before THEN bad
                                          ELSE toolMapOf(bad - 1)[n]]
                        /\ tools' = tools
               ELSE /\ startup' = "testFailed"
                    /\ toolMap' = toolMapOf(Len(Providers))
                    /\ tools' = convertToOpenaiTools(allMcpTools(Len(Providers)))
    /\ pc' = "exited"
    /\ UNCHANGED <<turnVars, config, input, asked, suggested, timed,
                   fixedArgs>>

\* start: the input is "exit" or the input surface is cancelled; the loop
\* ends and the finally block calls cleanup.
Exit ==
    /\ pc = "awaiting"
    /\ \E raw \in Inputs :
          /\ isExit(getUserInput(raw))
          /\ input' = raw
    /\ pc' = "cleanup"
    /\ UNCHANGED <<clients, toolMap, tools, turnVars, toolVars,
                   fixedArgs>>

\* ToolManager.cleanup: one pass of the loop, client.close and
\* transport.close succeed for the next entry of this.clients.
CloseOk ==
    /\ pc = "cleanup"
    /\ clients # {}
    /\ LET k == CHOOSE c \in clients : \A d \in clients : c <= d
       IN  /\ clients' = clients \ {k}
           /\ pc' = IF clients = {k} THEN "exited" ELSE "cleanup"
    /\ UNCHANGED <<toolMap, tools, turnVars, toolVars, input,
                   fixedArgs>>

\* ToolManager.cleanup: close throws; the loop is left and the rejection of
\* the promise start did not await is nobody's to handle.
CloseFails ==
    /\ pc = "cleanup"
    /\ clients # {}
    /\ pc' = "exited"
    /\ UNCHANGED <<clients, toolMap, tools, turnVars, toolVars, input,
                   fixedArgs>>

\* start and processUserInput up to the first await: the user message is
\* appended and the first model request of the turn is sent.
UserInput ==
    /\ pc = "awaiting"
    /\ Len(messages) + 2 <= MaxMsgs
    /\ \E raw \in Inputs :
          LET userInput == getUserInput(raw)
          IN  /\ ~isExit(userInput)
              /\ input' = raw
              /\ messages' = Append(messages, Message("user", userInput, <<>>, NoId))
    /\ pc' = "model"
    /\ turnStart' = messages
    /\ modelCalls' = 1
    /\ tried' = {}
    /\ outcomes' = <<>>
    /\ toolCalls' = <<>>
    /\ idx' = 0
    /\ result' = Undefined
    /\ stack' = <<>>
    /\ surfaced' = "none"
    /\ thrown' = "none"
    /\ ended' = "running"
    /\ UNCHANGED <<clients, toolMap, tools, toolVars, fixedArgs>>

\* handleToolCalls is entered with the batch `batch` from the frames `frames`.
EnterBatch(batch, frames) ==
    /\ toolCalls' = batch
    /\ idx' = 1
    /\ outcomes' = <<>>
    /\ stack' = frames
    /\ tried' = tried \cup {batch[i].name : i \in 1..Len(batch)}
    /\ pc' = "exec"
    /\ UNCHANGED <<surfaced, ended, modelCalls, result>>

\* The turn returns to start without an error.
EndTurn(how) ==
    /\ pc' = "awaiting"
    /\ ended' = how
    /\ UNCHANGED <<toolCalls, idx, outcomes, stack, tried, surfaced, modelCalls,
                   result>>

\* An error leaves handleToolCalls: the catch of processUserInput pops the
\* last message and throws on, the catch of start reports it.
Surface(err) ==
    /\ messages' = pop(messages)
    /\ surfaced' = err
    /\ pc' = "awaiting"
    /\ ended' = "error"
    /\ UNCHANGED <<toolCalls, idx, outcomes, stack, tried, modelCalls, result>>

\* processUserInput: the first model request answers.
ModelAnswers ==
    /\ pc = "model"
    /\ \E response \in Responses :
          /\ Room(response)
          /\ messages' = Append(messages, response)
          /\ IF hasToolCalls(response)
             THEN EnterBatch(response.tool_calls, <<>>)
             ELSE EndTurn("plain")
    /\ thrown' = "none"
    /\ UNCHANGED <<clients, toolMap, tools, turnStart, input, toolVars, fixedArgs>>

\* processUserInput: the first model request throws.
ModelFails ==
    /\ pc = "model"
    /\ \E err \in ChatErrors :
          /\ thrown' = err
          /\ surfaced' = err
    /\ messages' = pop(messages)
    /\ pc' = "awaiting"
    /\ ended' = "firstFailed"
    /\ UNCHANGED <<clients, toolMap, tools, toolCalls, idx, result, stack,
                   turnStart, modelCalls, tried, outcomes, input, toolVars, fixedArgs>>

\* handleToolCalls: one pass of the for loop, for the call at idx.
ExecuteTool ==
    /\ pc = "exec"
    /\ ~parsesToNull(toolCalls[idx].arguments)
    /\ LET toolCall          == toolCalls[idx]
           args              == parseToolArguments(toolCall.arguments)
           parameterMappings == suggestParameterMapping(toolCall.name, args)
       IN  \E reply \in ProviderReplies :
             LET res  == callTool(toolCall.name, reply)
                 hard == toolCall.name \notin DOMAIN toolMap \/ reply.throws
             IN  /\ fixedArgs' = fixToolArguments(args, parameterMappings)
                 /\ result' = res
                 /\ IF res.defined /\ isSoftFailure(res.content)
                    THEN \* the diagnostic is appended and the recovery request sent
                         /\ messages' = Append(messages,
                               toolMessage(createDetailedErrorMessage(
                                               toolCall.name, res.content[1].text,
                                               getToolParameterInfo(toolCall.name),
                                               parameterMappings),
                                           toolCall))
                         /\ outcomes' = Append(outcomes, IF hard THEN "hard" ELSE "soft")
                         /\ pc' = "recover"
                         /\ modelCalls' = modelCalls + 1
                         /\ idx' = idx
                    ELSE /\ messages' =
                               IF res.defined
                               THEN Append(messages,
                                      toolMessage(formatToolResponse(res.content),
                                                  toolCall))
                               ELSE messages
                         /\ outcomes' = Append(outcomes, IF hard THEN "hard" ELSE "ok")
                         /\ IF idx < Len(toolCalls)
                            THEN /\ idx' = idx + 1
                                 /\ pc' = "exec"
                                 /\ modelCalls' = modelCalls
                            ELSE \* the loop is over: the final-answer request is sent
                                 /\ idx' = idx
                                 /\ pc' = "final"
                                 /\ modelCalls' = modelCalls + 1
    /\ UNCHANGED <<clients, toolMap, tools, toolCalls, stack, surfaced, thrown,
                   turnStart, tried, ended, input, toolVars>>

\* handleToolCalls: the pass of the for loop for a call whose arguments parse
\* to null.  fixToolArguments (and, for a known tool, suggestParameterMapping
\* before it) throws a TypeError outside every try of this frame: the catch of
\* an enclosing recovery or final branch logs it, with no enclosing frame it
\* reaches the catch of processUserInput.
ArgumentsThrow ==
    /\ pc = "exec"
    /\ parsesToNull(toolCalls[idx].arguments)
    /\ thrown' = "typeError"
    /\ LET out == propagate("typeError", stack)
       IN  IF out = "none"
           THEN EndTurn("absorbed") /\ messages' = messages
           ELSE Surface(out)
    /\ UNCHANGED <<clients, toolMap, tools, turnStart, input, toolVars, fixedArgs>>

\* handleToolCalls: the recovery request answers.
RecoveryAnswers ==
    /\ pc = "recover"
    /\ \E errorResponse \in Responses :
          /\ Room(errorResponse)
          /\ messages' = Append(messages, errorResponse)
          /\ IF hasToolCalls(errorResponse)
             THEN IF hasNewToolCalls(errorResponse.tool_calls, toolCalls[idx])
                  THEN EnterBatch(errorResponse.tool_calls, Append(stack, "recover"))
                  ELSE EndTurn("identical")
             ELSE EndTurn("plain")
    /\ thrown' = "none"
    /\ UNCHANGED <<clients, toolMap, tools, turnStart, input, toolVars, fixedArgs>>

\* handleToolCalls: the recovery request throws.
RecoveryFails ==
    /\ pc = "recover"
    /\ \E err \in ChatErrors :
          /\ thrown' = err
          /\ LET out == propagate(catchRecovery(err), stack)
             IN  IF out = "none"
                 THEN EndTurn("absorbed") /\ messages' = messages
                 ELSE Surface(out)
    /\ UNCHANGED <<clients, toolMap, tools, turnStart, input, toolVars, fixedArgs>>

\* handleToolCalls: the final-answer request answers.
FinalAnswers ==
    /\ pc = "final"
    /\ \E finalResponse \in Responses :
          /\ Room(finalResponse)
          /\ messages' = Append(messages, finalResponse)
          /\ IF hasToolCalls(finalResponse)
             THEN IF hasNewTools(finalResponse.tool_calls, toolCalls)
                  THEN EnterBatch(finalResponse.tool_calls, Append(stack, "final"))
                  ELSE EndTurn("nonew")
             ELSE EndTurn("plain")
    /\ thrown' = "none"
    /\ UNCHANGED <<clients, toolMap, tools, turnStart, input, toolVars, fixedArgs>>

\* handleToolCalls: the final-answer request throws.
FinalFails ==
    /\ pc = "final"
    /\ \E err \in ChatErrors :
          /\ thrown' = err
          /\ LET out == propagate(catchFinal(err), stack)
             IN  IF out = "none"
                 THEN EndTurn("absorbed") /\ messages' = messages
                 ELSE Surface(out)
    /\ UNCHANGED <<clients, toolMap, tools, turnStart, input, toolVars, fixedArgs>>

Next ==
    \/ Connect
    \/ ConnectFails
    \/ Initialize
    \/ InitializeFails
    \/ Exit
    \/ CloseOk
    \/ CloseFails
    \/ UserInput
    \/ ModelAnswers
    \/ ModelFails
    \/ ExecuteTool
    \/ ArgumentsThrow
    \/ RecoveryAnswers
    \/ RecoveryFails
    \/ FinalAnswers
    \/ FinalFails

Spec == Init /\ [][Next]_vars

\* The session when every request to the model settles: ollama.chat answers
\* or throws, and callTool returns at once for a name that is not in the
\* dispatch table.  Nothing makes a provider's tool call settle, and nothing
\* makes the user type.
SpecFair ==
    /\ Init
    /\ [][Next]_vars
    /\ WF_vars(pc = "exec" /\ toolCalls[idx].name \notin DOMAIN toolMap /\ ExecuteTool)
    /\ WF_vars(ArgumentsThrow)
    /\ WF_vars(ModelAnswers \/ ModelFails)
    /\ WF_vars(RecoveryAnswers \/ RecoveryFails)
    /\ WF_vars(FinalAnswers \/ FinalFails)

----------------------------------------------------------------------------
\* The tool manager on its own, under every configuration.

InitTools ==
    /\ InitSession
    /\ config \in Configs

\* The variables the calls of the tool manager leave alone.
managerVars == <<pc, clients, toolMap, tools, turnVars, config, newClients,
                 startup, input>>

\* fixToolArguments applied to the arguments and the mapping of the last
\* suggestParameterMapping call, as handleToolCalls does before callTool.
FixArguments ==
    /\ pc = "awaiting"
    /\ asked # NotAsked
    /\ fixedArgs' = fixToolArguments(asked.providedArgs, suggested)
    /\ UNCHANGED <<managerVars, asked, suggested, timed>>

\* The call of suggestParameterMapping of a session, in an iteration of the
\* loop of handleToolCalls: its fixedArgs is not assigned yet.
Suggest ==
    /\ pc = "awaiting"
    /\ asked = NotAsked
    /\ \E toolName \in SuggestNames, providedArgs \in SuggestArgs :
          /\ asked' = [toolName |-> toolName, providedArgs |-> providedArgs]
          /\ suggested' = suggestParameterMapping(toolName, providedArgs)
    /\ fixedArgs' = <<>>
    /\ UNCHANGED <<managerVars, timed>>

\* executeToolCall is called.
ExecuteToolCall ==
    /\ pc = "awaiting"
    /\ timed.timer # "pending"
    /\ timed.provider # "pending"
    /\ \E toolCall \in ExecCalls : timed' = startCall(toolCall)
    /\ UNCHANGED <<managerVars, asked, suggested, fixedArgs>>

\* client.callTool settles: the provider answers or throws.
ProviderSettles ==
    /\ timed.provider = "pending"
    /\ \E reply \in ProviderReplies : timed' = settle(timed, "provider", reply)
    /\ UNCHANGED <<managerVars, asked, suggested, fixedArgs>>

\* The timer of callToolWithTimeout expires.
TimerFires ==
    /\ timed.timer = "pending"
    /\ timed' = settle(timed, "timer", NoReply)
    /\ UNCHANGED <<managerVars, asked, suggested, fixedArgs>>

NextTools ==
    \/ Connect
    \/ ConnectFails
    \/ Initialize
    \/ InitializeFails
    \/ Exit
    \/ CloseOk
    \/ CloseFails
    \/ Suggest
    \/ FixArguments
    \/ ExecuteToolCall
    \/ ProviderSettles
    \/ TimerFires

SpecTools == InitTools /\ [][NextTools]_vars

----------------------------------------------------------------------------
\* Properties.

\* The position of the last assistant message of the transcript, 0 if none.
LastAssistantAt ==
    IF \E i \in 1..Len(messages) : messages[i].role = "assistant"
    THEN CHOOSE i \in 1..Len(messages) :
            /\ messages[i].role = "assistant"
            /\ \A j \in (i + 1)..Len(messages) : messages[j].role # "assistant"
    ELSE 0

\* A model request of the turn has just been answered with a response that
\* carries tool calls (the step appends that response).
AnsweredWithCalls ==
    /\ Len(messages') = Len(messages) + 1
    /\ Last(messages').role = "assistant"
    /\ Last(messages').tool_calls # <<>>

\* The turn returned to start without an error.
TurnReturned ==
    pc = "awaiting" /\ ended \in {"plain", "identical", "nonew", "absorbed"}

\* C1: when the first model request of a turn fails, the error reaches the
\* caller and the transcript is again the transcript the turn began with.
Thm_C1 ==
    (pc = "awaiting" /\ ended = "firstFailed")
        => /\ messages = turnStart
           /\ thrown \in ChatErrors
           /\ surfaced = thrown

Witness_C1 ==
    /\ pc = "awaiting"
    /\ ended = "firstFailed"
    /\ Len(messages) > 1

\* C2: whenever a model failure of the turn surfaces to start, the transcript
\* is as long as it was before the turn.
CE_C2 ==
    (pc = "awaiting" /\ surfaced \in ChatErrors) => Len(messages) = Len(turnStart)

\* C3: at every return to AWAITING_INPUT every user message is immediately
\* followed by an assistant message.
CE_C3 ==
    pc = "awaiting"
        => \A i \in 1..Len(messages) :
              messages[i].role = "user"
                  => (i < Len(messages) /\ messages[i + 1].role = "assistant")

\* C4: a recovery response with tool calls makes the handler recurse exactly
\* when some new call differs from the failed call in name or in serialized
\* arguments; otherwise the turn returns with no tool executed and no further
\* model request, after two model requests when the failed call was of the
\* turn's first batch.
Thm_C4 ==
    [][ (pc = "recover" /\ AnsweredWithCalls) =>
          LET new     == Last(messages').tool_calls
              failed  == toolCalls[idx]
              differs == \E i \in 1..Len(new) :
                            \/ new[i].name # failed.name
                            \/ stringify(new[i].arguments) # stringify(failed.arguments)
          IN  /\ differs => (pc' = "exec" /\ toolCalls' = new /\ idx' = 1
                             /\ outcomes' = <<>>)
              /\ ~differs => /\ pc' = "awaiting"
                             /\ outcomes' = outcomes
                             /\ modelCalls' = modelCalls
                             /\ (stack = <<>> => modelCalls' = 2) ]_vars

Witness_C4 ==
    /\ pc = "awaiting"
    /\ ended = "identical"
    /\ modelCalls = 2
    /\ Len(Last(messages).tool_calls) = 2

\* C5: a final-answer response with tool calls makes the handler recurse
\* exactly when one of its tool names was not tried in any earlier batch of the
\* turn.
CE_C5 ==
    [][ (pc = "final" /\ AnsweredWithCalls) =>
          LET new == Last(messages').tool_calls
          IN  (pc' = "exec") <=> (\E i \in 1..Len(new) : new[i].name \notin tried) ]_vars

\* C6 as claimed: a turn that returns without an error has a last assistant
\* message without tool calls.
CE_C6 ==
    TurnReturned => messages[LastAssistantAt].tool_calls = <<>>

\* C6 as amended: a turn that returns without an error ends with a plain
\* answer, except when the repeated-call check, the no-new-tool-names check or
\* a failure absorbed by the catch of a recovery or final-answer branch ended
\* it; then, and only then, the last assistant message of the turn carries
\* tool calls.
Thm_C6 ==
    TurnReturned
        => /\ LastAssistantAt > Len(turnStart)
           /\ (messages[LastAssistantAt].tool_calls = <<>>) <=> (ended = "plain")

Witness_C6 ==
    /\ TurnReturned
    /\ ended = "nonew"
    /\ messages[LastAssistantAt].tool_calls # <<>>

\* C7: a tool result is handled as a soft failure exactly when some text block
\* of it, whatever its position, contains "Error".
CE_C7 ==
    (pc \in {"exec", "recover", "final"} /\ Len(outcomes) > 0 /\ result.defined)
        => ((Last(outcomes) = "soft")
              <=> \E i \in 1..Len(result.content) :
                     /\ result.content[i].type = "text"
                     /\ Includes(result.content[i].text, <<"Error">>))

\* The tool the dispatch table routes `toolName` to, as its provider declares it.
DeclaredTool(toolName) ==
    LET list == Providers[toolMap[toolName]]
    IN  list[CHOOSE i \in 1..Len(list) : list[i].name = toolName]

\* The calls of the current batch that were executed and did not fail hard.
AnsweredCalls == {i \in 1..Len(outcomes) : outcomes[i] # "hard"}

\* C8: when a call is classified as a soft failure, exactly one tool message
\* was appended for it before the recovery request, and it holds the error
\* text, "Expected parameters", the tool's required and available parameter
\* names and every suggested renaming.
CE_C8 ==
    pc = "recover"
        => LET toolCall == toolCalls[idx]
               diag     == Last(messages)
               declared == DeclaredTool(toolCall.name)
               renamed  == suggestParameterMapping(
                               toolCall.name, parseToolArguments(toolCall.arguments))
           IN  /\ diag.role = "tool"
               /\ diag.tool_call_id = toolCall.name
               /\ Len(messages) - LastAssistantAt = Cardinality(AnsweredCalls)
               /\ Includes(diag.content, result.content[1].text)
               /\ Includes(diag.content, <<"Expected parameters">>)
               /\ \A i \in 1..Len(declared.required) :
                     Includes(diag.content, declared.required[i])
               /\ \A i \in 1..Len(declared.properties) :
                     Includes(diag.content, declared.properties[i])
               /\ \A i \in 1..Len(renamed) :
                     Includes(diag.content,
                              renamed[i].from \o <<" -> ">> \o renamed[i].to)

\* C9 as claimed: after a hard failure of a call, every later call of the
\* batch is executed and the final-answer request is reached, so no later call
\* of the batch ends the batch in its recovery branch.
CE_C9 ==
    \A i \in 1..Len(outcomes) :
        outcomes[i] = "hard" => \A j \in (i + 1)..Len(outcomes) : outcomes[j] # "soft"

\* C9 as amended: a hard failure of a call appends no tool message, raises
\* nothing and lets the handler go on to the next call of the batch or, after
\* the last call, to the final-answer request; calls are executed in order and
\* the loop is left only to the final-answer request, with every call executed,
\* to the recovery request of a call classified as a soft failure, or by a
\* call that throws before it is sent to its tool.
Thm_C9 ==
    [][ pc = "exec" =>
          /\ idx = Len(outcomes) + 1
          /\ toolCalls' = toolCalls
          /\ \/ /\ Len(outcomes') = Len(outcomes) + 1
                /\ Last(outcomes') = "hard"
                      => /\ messages' = messages
                         /\ surfaced' = "none"
                         /\ IF idx < Len(toolCalls)
                            THEN pc' = "exec" /\ idx' = idx + 1
                            ELSE pc' = "final"
                /\ pc' = "final" => Len(outcomes') = Len(toolCalls)
                /\ pc' # "final"
                      => (pc' = "exec" \/ (pc' = "recover" /\ Last(outcomes') = "soft"))
             \/ /\ outcomes' = outcomes
                /\ parsesToNull(toolCalls[idx].arguments)
                /\ thrown' = "typeError"
                /\ pc' = "awaiting"
      ]_vars

Witness_C9 ==
    /\ pc = "final"
    /\ Len(toolCalls) = 2
    /\ outcomes = <<"hard", "ok">>
    /\ Last(messages).role = "tool"

\* C10: a connection-refused failure of any model request of a turn reaches
\* start, which goes back to awaiting input with the provider connections
\* still open.
Thm_C10 ==
    [][ (pc \in {"model", "recover", "final"} /\ thrown' = "refused")
            => /\ surfaced' = "refused"
               /\ pc' = "awaiting"
               /\ clients' = clients
               /\ clients' # {} ]_vars

Witness_C10 ==
    /\ pc = "awaiting"
    /\ thrown = "refused"
    /\ surfaced = "refused"
    /\ Len(stack) = 2
    /\ stack[2] = "recover"
    /\ clients # {}

\* C11: on every exit path of the program every provider connection that was
\* opened has been closed.
CE_C11 ==
    pc = "exited" => clients \cup newClients = {}

\* The input ends the loop: it is the cancel symbol, or it has the four
\* characters of "exit" in either case.
EndsLoop(raw) ==
    \/ raw = Cancel
    \/ /\ Len(raw) = Len(exit)
       /\ \A i \in 1..Len(exit) : toLowerCase(raw[i]) = exit[i]

\* C12: the loop ends exactly on an input that equals "exit" whatever its
\* case or on a cancelled prompt, and then no user message is appended, no
\* model request is made and teardown runs; every other input, one that
\* contains "exit" included, starts a turn with that input as the user
\* message, and a turn never leads to teardown: it returns to the prompt.
Thm_C12 ==
    [][ /\ pc = "awaiting" =>
              IF EndsLoop(input')
              THEN /\ pc' = "cleanup"
                   /\ messages' = messages
                   /\ modelCalls' = modelCalls
              ELSE /\ pc' = "model"
                   /\ messages' = Append(messages, Message("user", input', <<>>, NoId))
                   /\ modelCalls' = 1
        /\ pc' = "cleanup" => pc \in {"awaiting", "cleanup"}
        /\ pc \in {"model", "exec", "recover", "final"}
              => pc' \in {"model", "exec", "recover", "final", "awaiting"} ]_vars

Witness_C12 ==
    /\ pc = "exited"
    /\ input = Cancel
    /\ clients = {}
    /\ \E i \in 1..Len(messages) :
          messages[i].role = "user" /\ messages[i].content = exits

\* Whether the message at j is an assistant message with tool calls.
Calling(j) == messages[j].role = "assistant" /\ messages[j].tool_calls # <<>>

\* Whether the message at j carries a tool call named id.
CarriesCall(j, id) ==
    \E c \in 1..Len(messages[j].tool_calls) : messages[j].tool_calls[c].name = id

\* C13: in every transcript each tool message has the name of a tool call of
\* an assistant message before it as its tool_call_id: of the nearest
\* assistant message with tool calls before it, or of an earlier one of the
\* same turn.
Thm_C13 ==
    \A i \in 1..Len(messages) :
        messages[i].role = "tool" =>
            \E j \in 1..(i - 1) :
                /\ Calling(j)
                /\ CarriesCall(j, messages[i].tool_call_id)
                /\ \A k \in (j + 1)..(i - 1) : messages[k].role # "user"

Witness_C13 ==
    /\ pc = "awaiting"
    /\ surfaced # "none"
    /\ Len(messages) < Len(turnStart) + 4
    /\ \E i \in 1..Len(messages) :
          /\ messages[i].role = "tool"
          /\ messages[i].tool_call_id = "a"
          /\ \E j \in 1..(i - 1) : Calling(j) /\ \E k \in (j + 1)..(i - 1) : Calling(k)

\* C14: in the timed call the first of the provider call and the timer to
\* settle decides the outcome: the provider's result or failure when the
\* provider is first, a timeout failure when the timer is first, and whatever
\* settles afterwards changes nothing.
Thm_C14 ==
    [][ /\ (timed.phase = "racing" /\ timed'.timer = "fired")
              => /\ timed'.phase = "done"
                 /\ timed'.outcome = Failure(CallFailed(TimedOut))
        /\ (timed.phase = "racing" /\ timed'.provider \in {"resolved", "rejected"})
              => /\ timed'.phase = "done"
                 /\ timed'.outcome =
                       IF timed'.reply.throws THEN Failure(CallFailed(ProviderError))
                       ELSE Value(formatToolResponse(timed'.reply.content))
        /\ (timed.phase = "done" /\ (timed.timer = "pending" \/ timed.provider = "pending"))
              => /\ timed'.phase = "done"
                 /\ timed'.outcome = timed.outcome ]_vars

Witness_C14 ==
    /\ timed.phase = "done"
    /\ timed.first = "timer"
    /\ timed.provider = "resolved"
    /\ timed.outcome = Failure(CallFailed(TimedOut))

\* Whether the arguments are a string JSON.parse rejects.
NotJson(args) == args.str /\ ~args.json

\* C15: string arguments that are no JSON never make the decoding error
\* propagate, in the tool turn or in executeToolCall: they become the object
\* {value: <the string>} and the tool is called with it.
CE_C15 ==
    /\ \A c \in ExecCalls :
          NotJson(c.arguments)
              => parseToolArguments(c.arguments) = << [k |-> value, v |-> c.arguments.raw] >>
    /\ (timed.phase # "idle" /\ NotJson(timed.call.arguments)
            /\ timed.call.name \in DOMAIN toolMap)
          => /\ timed.outcome # Failure(SyntaxError)
             /\ timed.args = << [k |-> value, v |-> timed.call.arguments.raw] >>

\* Whether a listTools answer is a sequence of objects.
WellFormed(reply) ==
    /\ ~reply.throws
    /\ reply.isArray
    /\ \A i \in 1..Len(reply.items) :
          reply.items[i].typeof = "object" /\ ~reply.items[i].isNull

\* C16: once every provider is connected, building the catalog raises no
\* error whatever the providers answer; a provider whose list cannot be
\* fetched or is no sequence of objects contributes nothing, every named tool
\* of the other providers is in the catalog and in the dispatch table, and a
\* malformed provider with a provider of two tools gives a catalog of two.
CE_C16 ==
    startup \in {"ok", "typeError", "testFailed"} =>
        /\ startup # "typeError"
        /\ \A k \in 1..Len(config) :
              IF WellFormed(config[k])
              THEN \A i \in 1..Len(config[k].items) :
                      LET tool == config[k].items[i].tool
                      IN  tool.name # "" =>
                             /\ \E t \in 1..Len(tools) : tools[t].name = tool.name
                             /\ tool.name \in DOMAIN toolMap
              ELSE \A n \in DOMAIN toolMap : toolMap[n] # k
        /\ (\E k \in 1..Len(config) : ~WellFormed(config[k]))
              => Len(tools) = 2

\* C17: after initialize no name occurs twice in the catalog, and a name
\* offered by two providers is dispatched to the later one.
CE_C17 ==
    startup = "ok" =>
        /\ \A i, j \in 1..Len(tools) : i # j => tools[i].name # tools[j].name
        /\ \A n \in DOMAIN toolMap :
              \A k \in 1..Len(config) :
                  (WellFormed(config[k])
                     /\ \E i \in 1..Len(config[k].items) : config[k].items[i].tool.name = n)
                      => k <= toolMap[n]

\* Whether a provided key and a declared parameter match: one normalized name
\* is a substring of the other.
Matches(key, param) ==
    \/ Includes(normalize(key), normalize(param))
    \/ Includes(normalize(param), normalize(key))

\* The declared parameters of a known tool, in declaration order.
Declared(toolName) ==
    LET t == CHOOSE i \in 1..Len(tools) :
                /\ tools[i].name = toolName
                /\ \A j \in 1..(i - 1) : tools[j].name # toolName
    IN  tools[t].properties

\* What the last suggestParameterMapping call returned is the mapping of the
\* provided keys that are not declared and match a declared parameter, each to
\* the first declared parameter it matches.
SuggestedRight ==
    (\E t \in 1..Len(tools) : tools[t].name = asked.toolName) =>
        LET declared == Declared(asked.toolName)
            keys     == {asked.providedArgs[i].k : i \in 1..Len(asked.providedArgs)}
            wanted   == {key \in keys :
                            /\ \A d \in 1..Len(declared) : declared[d] # key
                            /\ \E d \in 1..Len(declared) : Matches(key, declared[d])}
        IN  /\ {suggested[i].from : i \in 1..Len(suggested)} = wanted
            /\ \A i, j \in 1..Len(suggested) :
                  i # j => suggested[i].from # suggested[j].from
            /\ \A i \in 1..Len(suggested) :
                  \E d \in 1..Len(declared) :
                      /\ suggested[i].to = declared[d]
                      /\ Matches(suggested[i].from, declared[d])
                      /\ \A e \in 1..(d - 1) : ~Matches(suggested[i].from, declared[e])

\* C18: for a known tool suggestParameterMapping returns exactly the provided
\* keys that are not declared and match some declared parameter, each mapped
\* to the first declared parameter, in declaration order, whose normalized
\* name is a substring of the normalized key or contains it; the call changes
\* no state.
Thm_C18 ==
    [][ (asked' # asked \/ suggested' # suggested)
            => /\ SuggestedRight'
               /\ UNCHANGED <<managerVars, timed>> ]_vars

Witness_C18 ==
    /\ asked = [toolName |-> "b", providedArgs |-> ArgsOf(<<pathlimit>>)]
    /\ suggested = << [from |-> pathlimit, to |-> path] >>

\* C19: with a tool "search" whose only parameter is "query", the call for
\* {qry: "cats"} returns {qry: "query"} and the call for {query: "cats"}
\* returns the empty mapping.
CE_C19 ==
    (\E t \in 1..Len(tools) :
        tools[t].name = "search" /\ tools[t].properties = <<query>>)
        => /\ asked = [toolName |-> "search", providedArgs |-> ArgsOf(<<qry>>)]
                => suggested = << [from |-> qry, to |-> query] >>
           /\ asked = [toolName |-> "search", providedArgs |-> ArgsOf(<<query>>)]
                => suggested = <<>>

\* C20: after a soft failure the handler returns from the recovery branch:
\* whatever the recovery request gives, the next step is the return of the
\* turn or the first call of the batch of the recovery response, in a nested
\* invocation; a failure other than a refused connection is absorbed; and a
\* later call of a batch and the final-answer request only happen when no
\* call of the batch before was a soft failure.
Thm_C20 ==
    [][ /\ pc = "recover" =>
              /\ pc' \in {"awaiting", "exec"}
              /\ pc' = "exec" => /\ stack' = Append(stack, "recover")
                                 /\ idx' = 1
                                 /\ toolCalls' = Last(messages').tool_calls
                                 /\ modelCalls' = modelCalls
              /\ thrown' = "other" => /\ pc' = "awaiting"
                                      /\ surfaced' = "none"
                                      /\ messages' = messages
        /\ pc' \in {"exec", "final"}
              => \A k \in 1..Len(outcomes') : outcomes'[k] # "soft" ]_vars

Witness_C20 ==
    /\ pc = "awaiting"
    /\ ended = "absorbed"
    /\ thrown = "other"
    /\ outcomes # <<>>
    /\ Last(outcomes) = "soft"
    /\ Len(outcomes) < Len(toolCalls)

\* The text of a result as the tool message carries it: the texts of its text
\* blocks, joined by newlines.
Flattened(content) == Join(textsOf(content), <<"\n">>)

\* The positions of the current batch whose call returned a result that was
\* not classified as a soft failure, up to position i.
OkUpTo(i) == {j \in 1..i : j <= Len(outcomes) /\ outcomes[j] = "ok"}

\* The messages after the assistant message of the current batch are the tool
\* messages of the calls that returned such a result, one each, in issue order.
ToolMessagesInOrder ==
    /\ Len(messages) - LastAssistantAt = Cardinality(OkUpTo(Len(outcomes)))
    /\ \A i \in OkUpTo(Len(outcomes)) :
          LET message == messages[LastAssistantAt + Cardinality(OkUpTo(i))]
          IN  /\ message.role = "tool"
              /\ message.tool_call_id = toolCalls[i].name

\* C21: the calls of a batch are executed in the order of the batch; a call
\* whose result is not classified as a soft failure appends exactly one tool
\* message, with the flattened text of the result and the name of the tool as
\* tool_call_id, before the next call is executed; so when the final-answer
\* request is sent the tool messages of the batch are in the transcript in
\* issue order.
Thm_C21 ==
    [][ (pc = "exec" /\ outcomes' # outcomes) =>
          /\ (result'.defined /\ ~isSoftFailure(result'.content))
                => /\ messages' = Append(messages,
                                     Message("tool", Flattened(result'.content),
                                             <<>>, toolCalls[idx].name))
                   /\ IF idx < Len(toolCalls)
                      THEN pc' = "exec" /\ idx' = idx + 1
                      ELSE pc' = "final"
          /\ pc' = "exec" => (toolCalls' = toolCalls /\ idx' = idx + 1)
          /\ pc' = "final" => (idx = Len(toolCalls) /\ ToolMessagesInOrder') ]_vars

Witness_C21 ==
    /\ pc = "final"
    /\ toolCalls = <<CallA, CallAque>>
    /\ outcomes = <<"ok", "ok">>
    /\ messages[Len(messages) - 1] = Message("tool", OkText, <<>>, "a")
    /\ Last(messages) = Message("tool", OkText \o <<"\n">> \o ErrText, <<>>, "a")

\* C22: a failure other than a refused connection of a recovery request or of
\* the final-answer request is absorbed: nothing reaches the turn handler, the
\* turn ends, and the transcript stays as it was, with the user message and
\* everything appended after it in the turn.
Thm_C22 ==
    [][ (pc \in {"recover", "final"} /\ thrown' = "other")
            => /\ surfaced' = "none"
               /\ pc' = "awaiting"
               /\ ended' = "absorbed"
               /\ messages' = messages
               /\ Len(messages') >= Len(turnStart) + 2
               /\ SubSeq(messages', 1, Len(turnStart)) = turnStart
               /\ messages'[Len(turnStart) + 1].role = "user" ]_vars

Witness_C22 ==
    /\ pc = "awaiting"
    /\ ended = "absorbed"
    /\ thrown = "other"
    /\ outcomes = <<"ok">>
    /\ stack = <<"final">>
    /\ Last(messages).role = "tool"

\* The batch the handler has just been entered with is the batch of an
\* enclosing invocation of the turn: an earlier assistant message of the turn
\* carries the same tool calls.
BatchRepeats ==
    /\ pc = "exec"
    /\ idx = 1
    /\ outcomes = <<>>
    /\ \E j \in (Len(turnStart) + 1)..(LastAssistantAt - 1) :
          /\ messages[j].role = "assistant"
          /\ messages[j].tool_calls = toolCalls

\* C23: every turn terminates whatever the model and the tools answer: the
\* identical-call check of the recovery branch and the new-tool-names check of
\* the final answer stop every recursion, so the handler is never entered
\* again with a batch that an enclosing invocation of the turn is handling
\* (the decisions of the handler read the batch and the response only, so a
\* recursion that comes back to a batch can do so for ever).
CE_C23 == ~BatchRepeats

\* C24: a tool call of a batch is under the timeout of the executor: when the
\* provider never settles, the call ends as a failure and the turn goes on to
\* the next call or to the final-answer request, so the handler never waits
\* for a tool call for ever.
CE_C24 == []<>(pc # "exec")

\* C25: every step leaves the transcript as it is, appends one message at its
\* end or removes its last message, and changes no other message; a message
\* is removed only when a model request failed; the first message is always
\* the system message, and a removal leaves every message that was in the
\* transcript when the turn began.
CE_C25 ==
    [][ /\ \/ messages' = messages
           \/ /\ Len(messages') = Len(messages) + 1
              /\ SubSeq(messages', 1, Len(messages)) = messages
           \/ /\ Len(messages') = Len(messages) - 1
              /\ messages' = SubSeq(messages, 1, Len(messages) - 1)
        /\ Len(messages') < Len(messages)
              => /\ pc \in {"model", "recover", "final"}
                 /\ thrown' \in ChatErrors
                 /\ Len(messages') >= Len(turnStart)
                 /\ SubSeq(messages', 1, Len(turnStart)) = turnStart
        /\ Len(messages') >= 1
        /\ messages'[1] = SystemMessage ]_vars

\* The arguments handed to the tool keep what was provided: as many entries,
\* and the entry of every provided key that is a declared parameter or has no
\* suggestion, with its value.
LosesNothing ==
    LET provided == asked.providedArgs
        declared == IF \E t \in 1..Len(tools) : tools[t].name = asked.toolName
                    THEN {Declared(asked.toolName)[d] :
                             d \in 1..Len(Declared(asked.toolName))}
                    ELSE {}
        renamed  == {suggested[i].from : i \in 1..Len(suggested)}
    IN  /\ Len(fixedArgs) = Len(provided)
        /\ \A i \in 1..Len(provided) :
              (provided[i].k \in declared \/ provided[i].k \notin renamed)
                  => \E j \in 1..Len(fixedArgs) : fixedArgs[j] = provided[i]

\* C26: applying the suggested mapping to the arguments of a call loses
\* nothing: the arguments sent have as many keys as the provided ones, a
\* provided key that is a declared parameter keeps its value and a key with no
\* suggestion passes through unchanged, also when a renamed key meets another
\* provided key or two keys are renamed to the same parameter.
CE_C26 ==
    [][ (asked # NotAsked /\ asked' = asked /\ suggested' = suggested
            /\ fixedArgs' # fixedArgs)
            => LosesNothing' ]_vars

\* C27: after initialize, for every named tool of the dispatch table the
\* schema getToolParameterInfo returns, the one the reconciler and the
\* diagnostic read, is the schema declared by the provider the dispatch table
\* routes the name to, also when two providers offer the same name.
CE_C27 ==
    startup = "ok" =>
        \A toolName \in DOMAIN toolMap :
            toolName # "" =>
                LET toolInfo == getToolParameterInfo(toolName)
                IN  /\ toolInfo # 0
                    /\ tools[toolInfo].properties = DeclaredTool(toolName).properties
                    /\ tools[toolInfo].required = DeclaredTool(toolName).required

====
